---------------------------- MODULE Spec2Model ----------------------------
(***************************************************************************)
(* SyncMaster: word-timestamp allocation / validation / merging            *)
(* (audio_processor.py, utils.py) and SYLT/USLT embedding into an MP3's    *)
(* ID3 tag container (mp3_embedder.py).                                    *)
(*                                                                         *)
(* Representation.                                                         *)
(*   - Times are integers in microseconds (1 s = 1000000, 1 ms = 1000);    *)
(*     Python's round(x, 3) is rounding to a whole millisecond and         *)
(*     int(x * 1000) is truncation to a whole millisecond.  Arithmetic is  *)
(*     exact: binary floating-point representation error is not modelled.  *)
(*   - A Python str is a sequence of one-character strings, so that        *)
(*     strip(), split() and ' '.join() are computed, not assumed.          *)
(*   - A word-timestamp dict is a record with fields word, start, end.     *)
(***************************************************************************)
EXTENDS Integers, Sequences, FiniteSets, TLC

VARIABLES
    transcription,      \* text returned by transcribe_audio (or None)
    audio_duration,     \* seconds (in microseconds) returned by get_audio_duration
    word_timestamps,    \* argument list of validate / merge
    overlap_threshold,  \* argument of merge_overlapping_timestamps
    result,             \* value returned by the last call
    calls,              \* how many times the function under study was applied
    gemini,             \* the transcription collaborator: client and its response
    max_words_per_line, \* argument of create_sentence_timestamps
    files,              \* file system: path -> file contents or NoFile
    pc,                 \* per session: position inside export / embed_sylt_lyrics
    call                \* per session: arguments, locals and results of the export

vars == <<transcription, audio_duration, word_timestamps, overlap_threshold,
          result, calls, gemini, max_words_per_line, files, pc, call>>

pureVars == <<transcription, audio_duration, word_timestamps,
              overlap_threshold, result, calls, gemini, max_words_per_line>>
embedVars == <<files, pc, call>>

\* Python None where a str or a list is expected: a one-element sequence that is
\* no text (its element is not a character) and no list of dicts
None == <<"None">>

\* self.client = None and nothing asked of it
NoGemini == [client |-> FALSE, response |-> None]

\* max_words_per_line: int = 8
DefaultMaxWordsPerLine == 8

(***************************************************************************)
(* Bounds of the model.                                                    *)
(***************************************************************************)
MaxUnits == 3       \* longest word-timestamp list drawn as an input
MaxTextLen == 7     \* longest transcription drawn as an input (characters)

(***************************************************************************)
(* Python str helpers.                                                     *)
(***************************************************************************)
Char == {"a", "b", " "}

IsSpace(c) == c = " "

\* all sequences over S of length 0..n
SeqsUpTo(S, n) == UNION {[1..k -> S] : k \in 0..n}

RECURSIVE lstrip(_)
lstrip(s) ==
    IF s = <<>> THEN s
    ELSE IF IsSpace(Head(s)) THEN lstrip(Tail(s)) ELSE s

RECURSIVE rstrip(_)
rstrip(s) ==
    IF s = <<>> THEN s
    ELSE IF IsSpace(s[Len(s)]) THEN rstrip(SubSeq(s, 1, Len(s) - 1)) ELSE s

\* str.strip()
strip(s) == rstrip(lstrip(s))

\* str.split() with no separator: the maximal runs of non-whitespace, in
\* order.  A run starts at a non-space that is first or follows a space and
\* ends at the last non-space before the next space or the end.
split(s) ==
    LET n          == Len(s)
        RunStarts  == {i \in 1..n : ~IsSpace(s[i]) /\ (i = 1 \/ IsSpace(s[i - 1]))}
        RunEnd(i)  == CHOOSE j \in i..n :
                          /\ \A k \in i..j : ~IsSpace(s[k])
                          /\ (j = n \/ IsSpace(s[j + 1]))
        NthRun(k)  == CHOOSE i \in RunStarts :
                          Cardinality({j \in RunStarts : j <= i}) = k
    IN  [k \in 1..Cardinality(RunStarts) |->
            SubSeq(s, NthRun(k), RunEnd(NthRun(k)))]

\* ' '.join(parts)
RECURSIVE join(_)
join(parts) ==
    IF parts = <<>> THEN <<>>
    ELSE IF Len(parts) = 1 THEN parts[1]
    ELSE parts[1] \o <<" ">> \o join(Tail(parts))

\* [w['word'] for w in group]
WordsOf(group) == [i \in 1..Len(group) |-> group[i].word]

\* concatenation of a sequence of sequences
RECURSIVE Flatten(_)
Flatten(ss) == IF ss = <<>> THEN <<>> ELSE Head(ss) \o Flatten(Tail(ss))

(***************************************************************************)
(* utils.merge_overlapping_timestamps                                      *)
(***************************************************************************)
DefaultOverlapThreshold == 50000

\* the test that lets a word join the current group
ShouldMergeNoEq(current_start, last_end, threshold) ==
    current_start - last_end < threshold

ShouldMerge(current_start, last_end, threshold) ==
    current_start - last_end <= threshold

\* flushing a group: a single word unchanged, several words merged
FlushGroupKeepFirstEnd(current_group) ==
    IF Len(current_group) = 1
    THEN current_group[1]
    ELSE [word  |-> join(WordsOf(current_group)),
          start |-> current_group[1].start,
          end   |-> current_group[1].end]

\* flushing a group with the last member's start as the merged start
FlushGroupLastStart(current_group) ==
    IF Len(current_group) = 1
    THEN current_group[1]
    ELSE [word  |-> join(WordsOf(current_group)),
          start |-> current_group[Len(current_group)].start,
          end   |-> current_group[Len(current_group)].end]

FlushGroup(current_group) ==
    IF Len(current_group) = 1
    THEN current_group[1]
    ELSE [word  |-> join(WordsOf(current_group)),
          start |-> current_group[1].start,
          end   |-> current_group[Len(current_group)].end]

RECURSIVE MergeLoop(_, _, _, _)
MergeLoop(rest, current_group, merged_timestamps, threshold) ==
    IF rest = <<>>
    THEN Append(merged_timestamps, FlushGroup(current_group))
    ELSE LET word_data     == Head(rest)
             last_end      == current_group[Len(current_group)].end
             current_start == word_data.start
         IN  IF ShouldMerge(current_start, last_end, threshold)
             THEN MergeLoop(Tail(rest), Append(current_group, word_data),
                            merged_timestamps, threshold)
             ELSE MergeLoop(Tail(rest), <<word_data>>,
                            Append(merged_timestamps, FlushGroup(current_group)),
                            threshold)

merge_overlapping_timestamps(wts, threshold) ==
    IF wts = <<>> THEN <<>>
    ELSE MergeLoop(Tail(wts), <<wts[1]>>, <<>>, threshold)

(***************************************************************************)
(* Inputs of the merge study: every list of up to MaxUnits units, sorted   *)
(* or not, overlapping or not.                                             *)
(***************************************************************************)
MergeWords == {<<"a">>, <<"b">>}
MergeTimes == {0, 50000, 120000}
MergeUnits == [word : MergeWords, start : MergeTimes, end : MergeTimes]
MergeThresholds == {DefaultOverlapThreshold, 0}

\* no embedder in the studies of the pure functions
EmbedIdle ==
    /\ files = <<>>
    /\ pc = <<>>
    /\ call = <<>>

InitMerge ==
    /\ word_timestamps \in SeqsUpTo(MergeUnits, MaxUnits)
    /\ overlap_threshold \in MergeThresholds
    /\ transcription = None
    /\ audio_duration = 0
    /\ result = None
    /\ calls = 0
    /\ gemini = NoGemini
    /\ max_words_per_line = DefaultMaxWordsPerLine
    /\ EmbedIdle

\* merged = merge_overlapping_timestamps(word_timestamps, overlap_threshold)
Merge ==
    /\ calls = 0
    /\ result' = merge_overlapping_timestamps(word_timestamps, overlap_threshold)
    /\ calls' = 1
    /\ UNCHANGED <<transcription, audio_duration, word_timestamps,
                   overlap_threshold, gemini, max_words_per_line>>
    /\ UNCHANGED embedVars

\* merged = merge_overlapping_timestamps(merged, overlap_threshold)
MergeAgain ==
    /\ calls = 1
    /\ result' = merge_overlapping_timestamps(result, overlap_threshold)
    /\ calls' = 2
    /\ UNCHANGED <<transcription, audio_duration, word_timestamps,
                   overlap_threshold, gemini, max_words_per_line>>
    /\ UNCHANGED embedVars

NextMerge == Merge \/ MergeAgain

SpecMerge == InitMerge /\ [][NextMerge]_vars

(***************************************************************************)
(* C9: in the output of merge no two adjacent entries have                 *)
(* gap <= threshold, where gap = later start - earlier end; for every      *)
(* input list, sorted or not.                                              *)
(***************************************************************************)
MergeNoCloseNeighbours ==
    calls = 1 =>
        \A i \in 1..(Len(result) - 1) :
            result[i + 1].start - result[i].end > overlap_threshold

\* a merge that really produced two or more entries, one of them a merged group,
\* from an input that is not sorted by start
MergeNoCloseNeighboursWitness ==
    /\ calls = 1
    /\ Len(word_timestamps) = 3
    /\ Len(result) = 2
    /\ \E i \in 1..2 : word_timestamps[i + 1].start < word_timestamps[i].start
    /\ \E i \in 1..2 : result[i].word \notin MergeWords

(***************************************************************************)
(* C10: merge loses no words: the output's word fields, concatenated in    *)
(* order and split on whitespace, are the input's words in their original  *)
(* order, and each merged entry starts at its first member's start and     *)
(* ends at its last member's end.                                          *)
(***************************************************************************)
\* index in the input of the first member of output entry k
RECURSIVE FirstMember(_, _)
FirstMember(merged, k) ==
    IF k = 1 THEN 1
    ELSE FirstMember(merged, k - 1) + Len(split(merged[k - 1].word))

LastMember(merged, k) == FirstMember(merged, k) + Len(split(merged[k].word)) - 1

MergeKeepsWords ==
    calls = 1 =>
        /\ Flatten([k \in 1..Len(result) |-> split(result[k].word)])
               = WordsOf(word_timestamps)
        /\ \A k \in 1..Len(result) :
              /\ result[k].start = word_timestamps[FirstMember(result, k)].start
              /\ result[k].end = word_timestamps[LastMember(result, k)].end

\* a merged entry of three words whose members have different ends
MergeKeepsWordsWitness ==
    /\ calls = 1
    /\ Len(word_timestamps) = 3
    /\ Len(result) = 1
    /\ word_timestamps[1].end # word_timestamps[3].end
    /\ word_timestamps[1].word # word_timestamps[2].word

(***************************************************************************)
(* C24: merge is idempotent for a fixed threshold: merging an already      *)
(* merged list again returns it unchanged, for every unit list.            *)
(***************************************************************************)
MergeIdempotent ==
    [][(calls = 1 /\ calls' = 2) => result' = result]_vars

\* a second merge of a list that holds a merged group and a single word, made
\* from an input that is not sorted by start
MergeIdempotentWitness ==
    /\ calls = 2
    /\ Len(word_timestamps) = 3
    /\ Len(result) = 2
    /\ \E i \in 1..2 : word_timestamps[i + 1].start < word_timestamps[i].start
    /\ \E i \in 1..2 : result[i].word \notin MergeWords

(***************************************************************************)
(* AudioProcessor.validate_timestamps                                      *)
(***************************************************************************)
MinDuration == 100000

Max(a, b) == IF a >= b THEN a ELSE b
Min(a, b) == IF a <= b THEN a ELSE b

\* dict.get(key, default)
Get(d, key, default) == IF key \in DOMAIN d THEN d[key] ELSE default

\* round(x, 3): to the nearest whole millisecond, ties to even
round3(x) ==
    LET q == x \div 1000
        r == x % 1000
    IN  IF r < 500 THEN q * 1000
        ELSE IF r > 500 THEN (q + 1) * 1000
        ELSE IF q % 2 = 0 THEN q * 1000 ELSE (q + 1) * 1000

\* the body of the loop: the cleaned dict built from one word_data
CleanedWord(word_data, duration) ==
    LET start_time == Max(0, Get(word_data, "start", 0))
        end_given  == Min(duration, Get(word_data, "end", start_time + MinDuration))
        end_time   == IF end_given <= start_time
                      THEN start_time + MinDuration
                      ELSE end_given
    IN  [word  |-> strip(Get(word_data, "word", <<>>)),
         start |-> round3(start_time),
         end   |-> round3(end_time)]

\* the test before the append, with every cleaned word kept
HasWordAlways(cleaned_word) == TRUE

\* `if cleaned_word['word']:` -- only add non-empty words
HasWord(cleaned_word) == cleaned_word.word # <<>>

RECURSIVE validate_timestamps(_, _)
validate_timestamps(wts, duration) ==
    IF wts = <<>> THEN <<>>
    ELSE LET cleaned_word == CleanedWord(Head(wts), duration)
         IN  (IF HasWord(cleaned_word) THEN <<cleaned_word>> ELSE <<>>)
                 \o validate_timestamps(Tail(wts), duration)

(***************************************************************************)
(* Inputs of the validate study: units with negative starts, ends before   *)
(* or at the start, ends past the duration, starts within 0.1 s of the     *)
(* duration, sub-millisecond values, blank words and a missing 'end' key.  *)
(***************************************************************************)
MaxValidateUnits == 2

ValidateWords == {<<"a">>, <<" ">>, <<" ", "b">>}
ValidateStarts == {-200000, 0, 9950000, 9950400}
ValidateEnds == {50000, 9900000, 10500000}
ValidateUnits ==
    [word : ValidateWords, start : ValidateStarts, end : ValidateEnds]
        \cup [word : ValidateWords, start : ValidateStarts]
ValidateDurations == {10000000, 9950000}

InitValidate ==
    /\ word_timestamps \in SeqsUpTo(ValidateUnits, MaxValidateUnits)
    /\ audio_duration \in ValidateDurations
    /\ transcription = None
    /\ overlap_threshold = DefaultOverlapThreshold
    /\ result = None
    /\ calls = 0
    /\ gemini = NoGemini
    /\ max_words_per_line = DefaultMaxWordsPerLine
    /\ EmbedIdle

\* cleaned = validate_timestamps(word_timestamps, audio_duration)
Validate ==
    /\ calls = 0
    /\ result' = validate_timestamps(word_timestamps, audio_duration)
    /\ calls' = 1
    /\ UNCHANGED <<transcription, audio_duration, word_timestamps,
                   overlap_threshold, gemini, max_words_per_line>>
    /\ UNCHANGED embedVars

\* cleaned = validate_timestamps(cleaned, audio_duration)
ValidateAgain ==
    /\ calls = 1
    /\ result' = validate_timestamps(result, audio_duration)
    /\ calls' = 2
    /\ UNCHANGED <<transcription, audio_duration, word_timestamps,
                   overlap_threshold, gemini, max_words_per_line>>
    /\ UNCHANGED embedVars

NextValidate == Validate \/ ValidateAgain

SpecValidate == InitValidate /\ [][NextValidate]_vars

(***************************************************************************)
(* C7: validate is idempotent: validating an already validated list with   *)
(* the same duration returns it unchanged.                                 *)
(***************************************************************************)
ValidateIdempotent ==
    [][(calls = 1 /\ calls' = 2) => result' = result]_vars

(***************************************************************************)
(* C8: every unit in the output of validate has start >= 0 and             *)
(* end - start >= 0.1 s.                                                   *)
(***************************************************************************)
ValidateMinDuration ==
    calls >= 1 =>
        \A i \in 1..Len(result) :
            /\ result[i].start >= 0
            /\ result[i].end - result[i].start >= MinDuration

(***************************************************************************)
(* C19: validate keeps the input order and drops exactly the units whose   *)
(* word trims to empty: the words of its output are the trimmed non-empty  *)
(* words of its input, in the same relative order, with no re-sorting by   *)
(* start time.                                                             *)
(***************************************************************************)
NotEmpty(s) == s # <<>>

TrimmedWords(wts) ==
    SelectSeq([i \in 1..Len(wts) |-> strip(wts[i].word)], NotEmpty)

ValidateKeepsOrder ==
    calls = 1 => WordsOf(result) = TrimmedWords(word_timestamps)

\* two kept units with different words whose starts decrease
ValidateKeepsOrderWitness ==
    /\ calls = 1
    /\ Len(word_timestamps) = 2
    /\ word_timestamps[1].start > word_timestamps[2].start
    /\ Len(result) = 2
    /\ result[1].word # result[2].word
    /\ result[1].start > result[2].start

(***************************************************************************)
(* AudioProcessor.create_sentence_timestamps                               *)
(***************************************************************************)
\* word.endswith('.') or word.endswith('!') or word.endswith('?')
EndsSentence(word) == word # <<>> /\ word[Len(word)] \in {".", "!", "?"}

\* the count test, with > in place of >=
SentenceFullLate(current_sentence, max_words) == Len(current_sentence) > max_words

\* len(current_sentence) >= max_words_per_line
SentenceFull(current_sentence, max_words) == Len(current_sentence) >= max_words

\* the dict built when a sentence is closed
SentenceData(current_sentence) ==
    [text  |-> strip(join(WordsOf(current_sentence))),
     start |-> Get(current_sentence[1], "start", 0),
     end   |-> Get(current_sentence[Len(current_sentence)], "end", 0),
     words |-> current_sentence]

RECURSIVE SentenceLoop(_, _, _, _)
SentenceLoop(rest, current_sentence, sentences, max_words) ==
    IF rest = <<>>
    THEN IF current_sentence # <<>>
         THEN Append(sentences, SentenceData(current_sentence))
         ELSE sentences
    ELSE LET word_data == Head(rest)
             appended  == Append(current_sentence, word_data)
             word      == Get(word_data, "word", <<>>)
         IN  IF SentenceFull(appended, max_words) \/ EndsSentence(word)
             THEN SentenceLoop(Tail(rest), <<>>,
                               Append(sentences, SentenceData(appended)), max_words)
             ELSE SentenceLoop(Tail(rest), appended, sentences, max_words)

create_sentence_timestamps(wts, max_words) ==
    IF wts = <<>> THEN <<>>
    ELSE SentenceLoop(wts, <<>>, <<>>, max_words)

(***************************************************************************)
(* Inputs of the grouping study: every list of up to MaxGroupUnits units   *)
(* drawn from plain words, words ending in '.', '!' and '?', a lone '?'    *)
(* and a word with the punctuation in front, whose starts and ends are not *)
(* ordered; line sizes 0 to 3 and the default.                             *)
(***************************************************************************)
MaxGroupUnits == 4

GroupUnits ==
    {[word |-> <<"a">>,      start |-> 0,      end |-> 100000],
     [word |-> <<"b">>,      start |-> 150000, end |-> 250000],
     [word |-> <<"a", ".">>, start |-> 200000, end |-> 300000],
     [word |-> <<"b", "!">>, start |-> 100000, end |-> 50000],
     [word |-> <<"?">>,      start |-> 50000,  end |-> 400000],
     [word |-> <<".", "a">>, start |-> 300000, end |-> 500000]}

GroupLineSizes == {0, 1, 2, 3, DefaultMaxWordsPerLine}

InitGroup ==
    /\ word_timestamps \in SeqsUpTo(GroupUnits, MaxGroupUnits)
    /\ max_words_per_line \in GroupLineSizes
    /\ overlap_threshold = DefaultOverlapThreshold
    /\ transcription = None
    /\ audio_duration = 0
    /\ result = None
    /\ calls = 0
    /\ gemini = NoGemini
    /\ EmbedIdle

\* sentences = create_sentence_timestamps(word_timestamps, max_words_per_line)
CreateSentenceTimestamps ==
    /\ calls = 0
    /\ result' = create_sentence_timestamps(word_timestamps, max_words_per_line)
    /\ calls' = 1
    /\ UNCHANGED <<transcription, audio_duration, word_timestamps,
                   overlap_threshold, gemini, max_words_per_line>>
    /\ UNCHANGED embedVars

NextGroup == CreateSentenceTimestamps

SpecGroup == InitGroup /\ [][NextGroup]_vars

\* the words of line k
LineWords(k) == result[k].words

LastWord(k) == LineWords(k)[Len(LineWords(k))].word

\* the lines partition the input, none is empty, no word but the last of a
\* line ends a sentence, and each line spans its first to its last word
LinesPartitionInput ==
    /\ Flatten([k \in 1..Len(result) |-> LineWords(k)]) = word_timestamps
    /\ \A k \in 1..Len(result) :
          /\ LineWords(k) # <<>>
          /\ \A j \in 1..(Len(LineWords(k)) - 1) : ~EndsSentence(LineWords(k)[j].word)
          /\ result[k].start = LineWords(k)[1].start
          /\ result[k].end = LineWords(k)[Len(LineWords(k))].end

\* every line except possibly the last is full or ends a sentence
LinesClosedByRule ==
    \A k \in 1..(Len(result) - 1) :
        \/ Len(LineWords(k)) = max_words_per_line
        \/ EndsSentence(LastWord(k))

NoFile == [missing |-> TRUE]

PlainMp3 == [audio |-> "song", mp3 |-> TRUE, tagged |-> FALSE, frames |-> {}]

\* os.path.exists(path)
exists(fs, path) == path \in DOMAIN fs /\ "missing" \notin DOMAIN fs[path]

(***************************************************************************)
(* MP3Embedder._create_sylt_data                                           *)
(***************************************************************************)
\* int(x * 1000) for x in seconds: whole milliseconds, rounded to nearest
IntMsRounding(x) == round3(x) \div 1000

\* int(x * 1000) for x in seconds: whole milliseconds, truncated toward zero
IntMs(x) == IF x >= 0 THEN x \div 1000 ELSE -((-x) \div 1000)

RECURSIVE create_sylt_data(_)
create_sylt_data(wts) ==
    IF wts = <<>> THEN <<>>
    ELSE LET word       == strip(Get(Head(wts), "word", <<>>))
             start_time == Get(Head(wts), "start", 0)
         IN  (IF word # <<>> THEN <<<<word, IntMs(start_time)>>>> ELSE <<>>)
                 \o create_sylt_data(Tail(wts))

(***************************************************************************)
(* AudioProcessor.get_word_timestamps                                      *)
(***************************************************************************)
start_offset == 500000
end_offset == 500000
word_gap == 50000

\* round(num / den, 3) for a time of num/den microseconds, den > 0
round3Q(num, den) ==
    LET d == den * 1000
        q == num \div d
        r == num % d
    IN  IF 2 * r < d THEN q * 1000
        ELSE IF 2 * r > d THEN (q + 1) * 1000
        ELSE IF q % 2 = 0 THEN q * 1000 ELSE (q + 1) * 1000

usable_duration_NoOffsets(duration) == duration

usable_duration(duration) == duration - start_offset - end_offset

\* start_time of word i (0-indexed) of total_words, as a fraction num/den
StartTimeNoGap(i, total_words, duration) ==
    IF total_words = 1
    THEN round3Q(start_offset, 1)
    ELSE round3Q(start_offset * total_words + i * usable_duration(duration),
                 total_words)

StartTime(i, total_words, duration) ==
    LET gap == IF i > 0 THEN word_gap ELSE 0
    IN  IF total_words = 1
        THEN round3Q(start_offset + gap, 1)
        ELSE round3Q((start_offset + gap) * total_words
                         + i * usable_duration(duration),
                     total_words)

EndTime(i, total_words, duration) ==
    IF total_words = 1
    THEN round3Q(duration - end_offset, 1)
    ELSE round3Q(start_offset * total_words
                     + (i + 1) * usable_duration(duration),
                 total_words)

\* `if audio_duration <= 0`, with < in place of <=
DurationUnusableStrict(duration) == duration < 0

\* `if audio_duration <= 0: return []`
DurationUnusable(duration) == duration <= 0

get_word_timestamps(fs, audio_file_path, text, duration) ==
    IF ~exists(fs, audio_file_path) THEN <<>>       \* FileNotFoundError, caught
    ELSE IF text = None \/ text = <<>> THEN <<>>
    ELSE IF DurationUnusable(duration) THEN <<>>
    ELSE LET words       == split(text)
             total_words == Len(words)
         IN  [k \in 1..total_words |->
                 [word  |-> strip(words[k]),
                  start |-> StartTime(k - 1, total_words, duration),
                  end   |-> EndTime(k - 1, total_words, duration)]]

(***************************************************************************)
(* Inputs of the allocation study: every transcription of up to MaxTextLen *)
(* characters (blank ones included), the transcription "Hello world", and  *)
(* durations from a failed probe (0) to 10 s.                              *)
(***************************************************************************)
AudioPath == "audio.mp3"

HelloWorld == <<"H", "e", "l", "l", "o", " ", "w", "o", "r", "l", "d">>

AllocDurations == {0, 300000, 1000000, 1001000, 3000000, 10000000}

InitAlloc ==
    /\ transcription \in SeqsUpTo(Char, MaxTextLen) \cup {None, HelloWorld}
    /\ audio_duration \in AllocDurations
    /\ files \in [{AudioPath} -> {NoFile, PlainMp3}]
    /\ word_timestamps = <<>>
    /\ overlap_threshold = DefaultOverlapThreshold
    /\ result = None
    /\ calls = 0
    /\ gemini = NoGemini
    /\ max_words_per_line = DefaultMaxWordsPerLine
    /\ pc = <<>>
    /\ call = <<>>

\* word_timestamps = processor.get_word_timestamps(audio_file_path)
GetWordTimestamps ==
    /\ calls = 0
    /\ result' = get_word_timestamps(files, AudioPath, transcription, audio_duration)
    /\ calls' = 1
    /\ UNCHANGED <<transcription, audio_duration, word_timestamps,
                   overlap_threshold, gemini, max_words_per_line>>
    /\ UNCHANGED embedVars

NextAlloc == GetWordTimestamps

SpecAlloc == InitAlloc /\ [][NextAlloc]_vars

\* the call reached the allocation loop with a non-empty word list
Allocated ==
    /\ calls = 1
    /\ exists(files, AudioPath)
    /\ transcription # None
    /\ split(transcription) # <<>>

(***************************************************************************)
(* C5: for every non-empty word list and every duration > 1.0 s, allocate  *)
(* returns exactly one unit per word, in word order, with non-decreasing   *)
(* start times and every end <= duration.                                  *)
(***************************************************************************)
AllocOnePerWordMonotoneBounded ==
    (Allocated /\ audio_duration > 1000000) =>
        /\ WordsOf(result) = split(transcription)
        /\ \A i \in 1..(Len(result) - 1) : result[i].start <= result[i + 1].start
        /\ \A i \in 1..Len(result) : result[i].end <= audio_duration

\* four words over 1.001 s: the usable millisecond is split among them
AllocOnePerWordWitness ==
    /\ Allocated
    /\ audio_duration = 1001000
    /\ Len(result) = 4
    /\ result[1].word # result[2].word

(***************************************************************************)
(* C6: for words = ["Hello", "world"] and duration = 3.0 the claim states  *)
(* units [0.5, 2.0] and [2.05, 3.0] and SYLT entries ("Hello", 500),       *)
(* ("world", 2050).                                                        *)
(***************************************************************************)
Hello == <<"H", "e", "l", "l", "o">>
World == <<"w", "o", "r", "l", "d">>

HelloWorldCase ==
    /\ Allocated
    /\ transcription = HelloWorld
    /\ audio_duration = 3000000

AllocHelloWorldAsStated ==
    HelloWorldCase =>
        /\ result = << [word |-> Hello, start |-> 500000, end |-> 2000000],
                       [word |-> World, start |-> 2050000, end |-> 3000000] >>
        /\ create_sylt_data(result) = << <<Hello, 500>>, <<World, 2050>> >>

(***************************************************************************)
(* C6, amended: for words = ["Hello", "world"] and duration = 3.0 allocate *)
(* yields [0.5, 1.5] and [1.55, 2.5] (the 0.5 s lead-out is reserved and   *)
(* the usable 2.0 s is halved), and encode_sylt of that result is          *)
(* [("Hello", 500), ("world", 1550)].                                      *)
(***************************************************************************)
AllocHelloWorld ==
    HelloWorldCase =>
        /\ result = << [word |-> Hello, start |-> 500000, end |-> 1500000],
                       [word |-> World, start |-> 1550000, end |-> 2500000] >>
        /\ create_sylt_data(result) = << <<Hello, 500>>, <<World, 1550>> >>

AllocHelloWorldWitness ==
    /\ HelloWorldCase
    /\ Len(result) = 2

(***************************************************************************)
(* C14: for every non-empty word list and every duration > 0, each unit    *)
(* produced by allocate satisfies 0 <= start < end <= duration.            *)
(***************************************************************************)
AllocWellFormed ==
    (Allocated /\ audio_duration > 0) =>
        \A i \in 1..Len(result) :
            /\ 0 <= result[i].start
            /\ result[i].start < result[i].end
            /\ result[i].end <= audio_duration

(***************************************************************************)
(* C17: allocate returns an empty sequence, without raising, whenever      *)
(* duration <= 0 or the word list is empty, and every word in a non-empty  *)
(* result is non-empty after trimming.                                     *)
(***************************************************************************)
AllocEmptyOnNoInput ==
    calls = 1 =>
        /\ (\/ audio_duration <= 0
            \/ transcription = None
            \/ split(transcription) = <<>>) => result = <<>>
        /\ \A i \in 1..Len(result) : strip(result[i].word) # <<>>

\* two words and an audio file whose duration probe gave 0
AllocEmptyOnNoInputWitness ==
    /\ calls = 1
    /\ exists(files, AudioPath)
    /\ audio_duration = 0
    /\ transcription # None
    /\ Len(split(transcription)) = 2
    /\ result = <<>>

(***************************************************************************)
(* AudioProcessor.transcribe_audio.  The collaborator is the Gemini client:*)
(* it may be absent (self.client is None), generate_content may raise, and *)
(* the response's text may be None, empty or a text.                       *)
(***************************************************************************)
MaxResponseLen == 3     \* longest response text drawn as an input (characters)

\* generate_content (or reading the audio bytes) raises
Raises == <<"raise">>

\* "Please edit this text to match your audio content."
PleaseEdit ==
    <<"P", "l", "e", "a", "s", "e", " ", "e", "d", "i", "t", " ", "t",
      "h", "i", "s", " ", "t", "e", "x", "t", " ", "t", "o", " ", "m",
      "a", "t", "c", "h", " ", "y", "o", "u", "r", " ", "a", "u", "d",
      "i", "o", " ", "c", "o", "n", "t", "e", "n", "t", ".">>

\* the value returned at line 52
NotAvailableText ==
    PleaseEdit \o
    <<" ", "G", "e", "m", "i", "n", "i", " ", "t", "r", "a", "n", "s",
      "c", "r", "i", "p", "t", "i", "o", "n", " ", "i", "s", " ", "n",
      "o", "t", " ", "a", "v", "a", "i", "l", "a", "b", "l", "e", ".">>

\* the value returned at line 84
TranscriptionFailedText ==
    PleaseEdit \o
    <<" ", "T", "r", "a", "n", "s", "c", "r", "i", "p", "t", "i", "o",
      "n", " ", "f", "a", "i", "l", "e", "d", ".">>

\* the value returned at line 88
ErrorOccurredText ==
    PleaseEdit \o
    <<" ", "A", "n", " ", "e", "r", "r", "o", "r", " ", "o", "c", "c",
      "u", "r", "r", "e", "d", " ", "d", "u", "r", "i", "n", "g", " ",
      "t", "r", "a", "n", "s", "c", "r", "i", "p", "t", "i", "o", "n",
      ".">>

transcribe_audio(fs, audio_file_path, g) ==
    IF ~exists(fs, audio_file_path) THEN ErrorOccurredText  \* FileNotFoundError
    ELSE IF ~g.client THEN NotAvailableText
    ELSE IF g.response = Raises THEN ErrorOccurredText
    ELSE IF g.response = None \/ g.response = <<>> THEN TranscriptionFailedText
    ELSE strip(g.response)

(***************************************************************************)
(* Inputs of the transcription study: with and without a client; responses *)
(* that are a text of up to MaxResponseLen characters, empty, None or an   *)
(* exception; a missing and a present audio file; a failed duration probe  *)
(* (0) and two real durations.                                             *)
(***************************************************************************)
Responses == SeqsUpTo(Char, MaxResponseLen) \cup {None, Raises}

TranscribeDurations == {0, 3000000, 10000000}

InitTranscribe ==
    /\ gemini \in [client : BOOLEAN, response : Responses]
    /\ max_words_per_line = DefaultMaxWordsPerLine
    /\ audio_duration \in TranscribeDurations
    /\ files \in [{AudioPath} -> {NoFile, PlainMp3}]
    /\ transcription = None
    /\ word_timestamps = <<>>
    /\ overlap_threshold = DefaultOverlapThreshold
    /\ result = None
    /\ calls = 0
    /\ pc = <<>>
    /\ call = <<>>

\* processor.get_word_timestamps(tmp_file_path), lines 100-155: the existence
\* test, then transcribe_audio, get_audio_duration and the allocation
GetWordTimestampsOfAudio ==
    /\ calls = 0
    /\ transcription' = IF exists(files, AudioPath)
                        THEN transcribe_audio(files, AudioPath, gemini)
                        ELSE transcription
    /\ result' = get_word_timestamps(files, AudioPath, transcription', audio_duration)
    /\ calls' = 1
    /\ UNCHANGED <<audio_duration, word_timestamps, overlap_threshold, gemini,
                   max_words_per_line>>
    /\ UNCHANGED embedVars

NextTranscribe == GetWordTimestampsOfAudio

SpecTranscribe == InitTranscribe /\ [][NextTranscribe]_vars

\* the collaborator yielded an error result or an empty result
TranscriptionFailed ==
    \/ ~gemini.client
    \/ gemini.response \in {None, <<>>, Raises}

(***************************************************************************)
(* C13: when the transcription collaborator yields an empty result or an   *)
(* error result (client unavailable, empty response, or exception),        *)
(* get_word_timestamps returns an empty list.                              *)
(***************************************************************************)
TranscriptionFailureGivesNoTimestamps ==
    (calls = 1 /\ TranscriptionFailed) => result = <<>>

(***************************************************************************)
(* ID3 tag container (mutagen.id3): a set of frames keyed by HashKey.      *)
(* A frame's text attribute is a str, except for SYLT where it is a list   *)
(* of (text, milliseconds) pairs: the record keeps the two apart, as text  *)
(* and synced.                                                             *)
(***************************************************************************)
\* Frame.HashKey: SYLT and USLT are keyed by FrameID:desc:lang
HashKey(frame) ==
    IF frame.id \in {"SYLT", "USLT"}
    THEN <<frame.id, frame.desc, frame.lang>>
    ELSE <<frame.id>>

\* tags.getall(id)
getall(frames, id) == {f \in frames : f.id = id}

\* tags.delall(id)
delall(frames, id) == {f \in frames : f.id # id}

\* tags.add(frame): stored under its HashKey
add(frames, frame) == {f \in frames : HashKey(f) # HashKey(frame)} \cup {frame}

\* SYLT(encoding=Encoding.UTF8, lang='eng', format=2, type=1, text=sylt_data)
NewSyltFrame(sylt_data) ==
    [id |-> "SYLT", encoding |-> "UTF8", lang |-> "eng", desc |-> "",
     format |-> 2, type |-> 1, text |-> <<>>, synced |-> sylt_data]

\* USLT(encoding=Encoding.UTF8, lang='eng', desc='', text=text)
NewUsltFrame(text) ==
    [id |-> "USLT", encoding |-> "UTF8", lang |-> "eng", desc |-> "",
     format |-> 0, type |-> 0, text |-> text, synced |-> <<>>]

\* tags.add(sylt_frame) without the delall before it
ReplaceSylt_NoDelall(frames, sylt_data) == add(frames, NewSyltFrame(sylt_data))

\* audio_file.tags.delall('SYLT'); audio_file.tags.add(sylt_frame)
ReplaceSylt(frames, sylt_data) ==
    add(delall(frames, "SYLT"), NewSyltFrame(sylt_data))

\* audio_file.tags.delall('USLT'); audio_file.tags.add(uslt_frame)
ReplaceUslt(frames, text) ==
    add(delall(frames, "USLT"), NewUsltFrame(text))

(***************************************************************************)
(* The files of the model: an uploaded MP3 (absent, untagged, or already   *)
(* carrying a title, two SYLT and two USLT frames), an uploaded WAV, and   *)
(* the output under temp_dir.                                              *)
(***************************************************************************)
temp_dir == "/tmp/audio_sync"
UploadDir == "/tmp/upload"

SongMp3 == <<UploadDir, "song.mp3">>
TalkWav == <<UploadDir, "talk.wav">>
SourcePaths == {SongMp3, TalkWav}
OutputNames == {"synced_song.mp3"}

\* os.path.join(self.temp_dir, output_filename)
output_path(output_filename) == <<temp_dir, output_filename>>

AllPaths == SourcePaths \cup {output_path(n) : n \in OutputNames}

\* audio_path.lower().endswith('.mp3')
EndsWithMp3(path) == path[2] \in {"song.mp3", "synced_song.mp3"}

OldFrame(id, lang, desc, text, synced) ==
    [id |-> id, encoding |-> "UTF8", lang |-> lang, desc |-> desc,
     format |-> (IF id = "SYLT" THEN 2 ELSE 0),
     type |-> (IF id = "SYLT" THEN 1 ELSE 0), text |-> text, synced |-> synced]

TitleFrame == OldFrame("TIT2", "", "", <<"a">>, <<>>)
EncoderFrame == OldFrame("TSSE", "", "", <<"b">>, <<>>)

OldFrames ==
    {TitleFrame,
     OldFrame("SYLT", "eng", "", <<>>, << <<<<"b">>, 7>> >>),
     OldFrame("SYLT", "eng", "live", <<>>, << <<<<"b">>, 7>>, <<<<"b">>, 9>> >>),
     OldFrame("USLT", "eng", "", <<"b">>, <<>>),
     OldFrame("USLT", "fra", "", <<"b">>, <<>>)}

TaggedMp3 == [audio |-> "song", mp3 |-> TRUE, tagged |-> TRUE, frames |-> OldFrames]
WavFile == [audio |-> "talk", mp3 |-> FALSE, tagged |-> FALSE, frames |-> {}]

\* what ffmpeg -codec:a libmp3lame writes: MPEG audio with an ID3 header
\* that names the encoder
Converted(file) ==
    [audio |-> file.audio, mp3 |-> TRUE, tagged |-> TRUE, frames |-> {EncoderFrame}]

\* MP3(path) taken to succeed on every file that is there
LoadableAnyFile(fs, path) == exists(fs, path)

\* MP3(path) succeeds: the file is there and holds MPEG audio
Loadable(fs, path) == exists(fs, path) /\ fs[path].mp3

\* `if audio_file.tags:` -- an ID3 object is falsy when None or empty
TagsTruthy(file) == file.tagged /\ file.frames # {}

(***************************************************************************)
(* MP3Embedder.verify_sylt_embedding and extract_sylt_lyrics.  getall      *)
(* returns the frames in file order, which a set does not fix: with more   *)
(* than one SYLT frame every order is a possible outcome.                  *)
(***************************************************************************)
RECURSIVE Orderings(_)
Orderings(S) ==
    IF S = {} THEN {<<>>}
    ELSE UNION {{<<x>> \o o : o \in Orderings(S \ {x})} : x \in S}

NotVerified ==
    [has_sylt |-> FALSE, has_uslt |-> FALSE, sylt_entries |-> 0, error |-> "not called"]

\* the set of values verify_sylt_embedding(mp3_path) can return
verify_sylt_embedding(fs, mp3_path) ==
    IF ~Loadable(fs, mp3_path)
    THEN {[has_sylt |-> FALSE, has_uslt |-> FALSE, sylt_entries |-> 0,
           error |-> "str(e)"]}
    ELSE IF ~TagsTruthy(fs[mp3_path])
    THEN {[has_sylt |-> FALSE, has_uslt |-> FALSE, sylt_entries |-> 0,
           error |-> "None"]}
    ELSE LET sylt_frames == getall(fs[mp3_path].frames, "SYLT")
             uslt_frames == getall(fs[mp3_path].frames, "USLT")
         IN  {[has_sylt |-> sylt_frames # {},
               has_uslt |-> uslt_frames # {},
               sylt_entries |-> n,
               error |-> "None"] :
                  n \in (IF sylt_frames = {} THEN {0}
                         ELSE {Len(first.synced) : first \in sylt_frames})}

\* the dicts extract_sylt_lyrics appends for one frame; timestamp_ms / 1000.0
LyricsOf(frame) ==
    [k \in 1..Len(frame.synced) |->
        [text |-> frame.synced[k][1], timestamp |-> frame.synced[k][2] * 1000]]

\* the set of values extract_sylt_lyrics(mp3_path) can return
extract_sylt_lyrics(fs, mp3_path) ==
    IF ~Loadable(fs, mp3_path) \/ ~TagsTruthy(fs[mp3_path])
    THEN {<<>>}
    ELSE {Flatten([k \in 1..Len(o) |-> LyricsOf(o[k])]) :
              o \in Orderings(getall(fs[mp3_path].frames, "SYLT"))}

(***************************************************************************)
(* Inputs of the verification study: a missing file, files that are not    *)
(* MPEG audio (with or without an ID3 header), and MP3 files with no tag   *)
(* container, an empty one, or any subset of a pool of frames that holds   *)
(* a SYLT frame without entries.                                           *)
(***************************************************************************)
VerifyPath == <<UploadDir, "any.mp3">>

EmptySyltFrame == OldFrame("SYLT", "deu", "", <<>>, <<>>)

VerifyFrames == OldFrames \cup {EmptySyltFrame}

VerifyFiles ==
    {NoFile}
        \cup [audio : {"song"}, mp3 : BOOLEAN, tagged : {FALSE}, frames : {{}}]
        \cup [audio : {"song"}, mp3 : BOOLEAN, tagged : {TRUE},
              frames : SUBSET VerifyFrames]

InitVerify ==
    /\ files \in [{VerifyPath} -> VerifyFiles]
    /\ overlap_threshold = DefaultOverlapThreshold
    /\ max_words_per_line = DefaultMaxWordsPerLine
    /\ transcription = None
    /\ audio_duration = 0
    /\ word_timestamps = <<>>
    /\ result = None
    /\ calls = 0
    /\ gemini = NoGemini
    /\ pc = <<>>
    /\ call = <<>>

\* verification = embedder.verify_sylt_embedding(mp3_path)
VerifySyltEmbedding ==
    /\ calls = 0
    /\ result' \in verify_sylt_embedding(files, VerifyPath)
    /\ calls' = 1
    /\ UNCHANGED <<transcription, audio_duration, word_timestamps,
                   overlap_threshold, gemini, max_words_per_line>>
    /\ UNCHANGED embedVars

NextVerify == VerifySyltEmbedding

SpecVerify == InitVerify /\ [][NextVerify]_vars

\* has_sylt = false, has_uslt = false, sylt_entries = 0
AllFalseZero(v) == ~v.has_sylt /\ ~v.has_uslt /\ v.sylt_entries = 0

\* the file is missing or is not MPEG audio
Unreadable(file) == "missing" \in DOMAIN file \/ ~file.mp3

(***************************************************************************)
(* C15: verification never fails: it always returns a result; for a file   *)
(* with no tag container the result is has_sylt = false, has_uslt = false, *)
(* sylt_entries = 0 with no error; for an unreadable file it is the same   *)
(* all-false/zero result with error set; and in every result               *)
(* has_sylt = false implies sylt_entries = 0.                              *)
(***************************************************************************)
VerifyNeverFails ==
    calls = 1 =>
        LET file == files[VerifyPath]
        IN  /\ DOMAIN result = {"has_sylt", "has_uslt", "sylt_entries", "error"}
            /\ Unreadable(file) => (AllFalseZero(result) /\ result.error # "None")
            /\ (~Unreadable(file) /\ ~file.tagged) =>
                   (AllFalseZero(result) /\ result.error = "None")
            /\ ~result.has_sylt => result.sylt_entries = 0

\* an MP3 file without a tag container, verified
VerifyNeverFailsWitness ==
    /\ calls = 1
    /\ files[VerifyPath] = PlainMp3
    /\ AllFalseZero(result)
    /\ result.error = "None"

(***************************************************************************)
(* MP3Embedder.create_lrc_file.  The file written is text: a sequence of   *)
(* characters in which "\n" separates the lines.                           *)
(***************************************************************************)
LrcWordsPerLine == 8

Digits == <<"0", "1", "2", "3", "4", "5", "6", "7", "8", "9">>

\* str(n) for n >= 0
RECURSIVE Decimal(_)
Decimal(n) ==
    IF n < 10 THEN <<Digits[n + 1]>>
    ELSE Decimal(n \div 10) \o <<Digits[(n % 10) + 1]>>

\* zero padding of a format specification to a minimum width
RECURSIVE ZeroPad(_, _)
ZeroPad(s, width) == IF Len(s) >= width THEN s ELSE ZeroPad(<<"0">> \o s, width)

\* the '.2f' of a format specification: hundredths, to nearest, ties to even on
\* the exact value
Hundredths(x) ==
    LET q == x \div 10000
        r == x % 10000
    IN  IF r < 5000 THEN q
        ELSE IF r > 5000 THEN q + 1
        ELSE IF q % 2 = 0 THEN q ELSE q + 1

\* f"{seconds:05.2f}"
FormatSeconds(seconds) ==
    LET h == Hundredths(seconds)
    IN  ZeroPad(Decimal(h \div 100) \o <<".">> \o ZeroPad(Decimal(h % 100), 2), 5)

\* minutes = int(start_time // 60); seconds = start_time % 60;
\* f"[{minutes:02d}:{seconds:05.2f}]", for start_time >= 0
TimestampStr(start_time) ==
    LET minutes == start_time \div 60000000
        seconds == start_time % 60000000
    IN  <<"[">> \o ZeroPad(Decimal(minutes), 2) \o <<":">>
            \o FormatSeconds(seconds) \o <<"]">>

\* the count test, with > in place of >=
LrcLineFullLate(current_line) == Len(current_line) > LrcWordsPerLine

\* len(current_line) >= 8
LrcLineFull(current_line) == Len(current_line) >= LrcWordsPerLine

\* [w.get('word', '') for w in current_line]
WordsOrEmpty(current_line) ==
    [i \in 1..Len(current_line) |-> Get(current_line[i], "word", <<>>)]

\* f"{timestamp_str}{line_text}"
LrcLine(current_line) ==
    TimestampStr(Get(current_line[1], "start", 0)) \o join(WordsOrEmpty(current_line))

RECURSIVE LrcLoop(_, _, _)
LrcLoop(rest, current_line, lrc_lines) ==
    IF rest = <<>>
    THEN IF current_line # <<>>
         THEN Append(lrc_lines, LrcLine(current_line))
         ELSE lrc_lines
    ELSE LET appended == Append(current_line, Head(rest))
         IN  IF LrcLineFull(appended)
             THEN LrcLoop(Tail(rest), <<>>, Append(lrc_lines, LrcLine(appended)))
             ELSE LrcLoop(Tail(rest), appended, lrc_lines)

\* '\n'.join(lrc_lines)
RECURSIVE JoinLines(_)
JoinLines(lines) ==
    IF lines = <<>> THEN <<>>
    ELSE IF Len(lines) = 1 THEN lines[1]
    ELSE lines[1] \o <<"\n">> \o JoinLines(Tail(lines))

\* the text create_lrc_file writes
LrcText(wts) == JoinLines(LrcLoop(wts, <<>>, <<>>))

(***************************************************************************)
(* Inputs of the LRC study: lists of 0 to MaxLrcUnits units whose words    *)
(* cycle through a pattern (tokens of split() and merged groups: no word   *)
(* holds a line break) and whose starts rise or fall by a fixed step from  *)
(* a base, staying >= 0.  No start is an exact tie between two hundredths: *)
(* for those the rendering depends on the float's last bit.                *)
(***************************************************************************)
MaxLrcUnits == 17

LrcPath == <<UploadDir, "song.lrc">>

LrcWordCycles == {<< <<"a">> >>,
                  << <<"a">>, <<"b">> >>,
                  << <<"a", " ", "b">>, <<"b", "?">>, <<"a">> >>}
LrcBases == {59996000, 75123000, 600000000}
LrcSteps == {250000, -4010000}

LrcInput(n, cycle, base, step) ==
    [i \in 1..n |->
        [word  |-> cycle[((i - 1) % Len(cycle)) + 1],
         start |-> base + (i - 1) * step,
         end   |-> base + (i - 1) * step + MinDuration]]

InitLrc ==
    /\ word_timestamps \in {LrcInput(n, cycle, base, step) :
                               n \in 0..MaxLrcUnits, cycle \in LrcWordCycles,
                               base \in LrcBases, step \in LrcSteps}
    /\ \A i \in 1..Len(word_timestamps) : word_timestamps[i].start >= 0
    /\ files = [p \in {LrcPath} |-> NoFile]
    /\ overlap_threshold = DefaultOverlapThreshold
    /\ max_words_per_line = DefaultMaxWordsPerLine
    /\ transcription = None
    /\ audio_duration = 0
    /\ result = None
    /\ calls = 0
    /\ gemini = NoGemini
    /\ pc = <<>>
    /\ call = <<>>

\* lrc_path = embedder.create_lrc_file(word_timestamps, output_path): the file
\* is written and its path returned, or open()/write() raises and the
\* exception is raised again at line 314
CreateLrcFile ==
    /\ calls = 0
    /\ \E written \in BOOLEAN :
          IF written
          THEN /\ files' = [files EXCEPT ![LrcPath] = [text |-> LrcText(word_timestamps)]]
               /\ result' = LrcPath
          ELSE /\ files' = files
               /\ result' = Raises
    /\ calls' = 1
    /\ UNCHANGED <<transcription, audio_duration, word_timestamps,
                   overlap_threshold, gemini, max_words_per_line>>
    /\ UNCHANGED <<pc, call>>

NextLrc == CreateLrcFile

SpecLrc == InitLrc /\ [][NextLrc]_vars

\* the lines of a text file: the stretches between its line breaks
LinesOfText(text) ==
    LET n           == Len(text)
        Breaks      == {i \in 1..n : text[i] = "\n"}
        NthBreak(k) == IF k = 0 THEN 0
                       ELSE IF k = Cardinality(Breaks) + 1 THEN n + 1
                       ELSE CHOOSE i \in Breaks :
                                Cardinality({j \in Breaks : j <= i}) = k
    IN  IF text = <<>> THEN <<>>
        ELSE [k \in 1..(Cardinality(Breaks) + 1) |->
                 SubSeq(text, NthBreak(k - 1) + 1, NthBreak(k) - 1)]

\* 10 single-character words, the first at 600.0 s, 0.25 s apart
TenWords == LrcInput(10, << <<"a">> >>, 600000000, 250000)

TenWordsLines ==
    << <<"[", "1", "0", ":", "0", "0", ".", "0", "0", "]", "a", " ", "a", " ", "a", " ", "a", " ", "a", " ", "a", " ", "a", " ", "a">>,
       <<"[", "1", "0", ":", "0", "2", ".", "0", "0", "]", "a", " ", "a">> >>

(***************************************************************************)
(* C16: LRC export of n units produces exactly ceil(n/8) lines; line k     *)
(* (0-indexed) holds units 8k .. min(8k+7, n-1) in order and carries the   *)
(* timestamp of unit 8k's start; 10 words give exactly 2 lines, the first  *)
(* stamped with the 1st word's start and the second with the 9th word's.   *)
(***************************************************************************)
LrcEightPerLine ==
    (calls = 1 /\ result = LrcPath) =>
        LET n     == Len(word_timestamps)
            lines == LinesOfText(files[LrcPath].text)
        IN  /\ Len(lines) = (n + 7) \div 8
            /\ \A k \in 0..(Len(lines) - 1) :
                  lines[k + 1] =
                      TimestampStr(word_timestamps[8 * k + 1].start)
                          \o join(WordsOf(SubSeq(word_timestamps, 8 * k + 1,
                                                 Min(8 * k + 8, n))))
            /\ word_timestamps = TenWords => lines = TenWordsLines

\* the 10-word export, written
LrcEightPerLineWitness ==
    /\ calls = 1
    /\ result = LrcPath
    /\ word_timestamps = TenWords
    /\ Len(LinesOfText(files[LrcPath].text)) = 2

(***************************************************************************)
(* C25: every LRC line prefix is a valid [mm:ss.cc] timestamp of the       *)
(* group's first word's start: for every start >= 0 in whole milliseconds  *)
(* the minutes field equals floor(start/60) and the seconds.centiseconds   *)
(* field lies in 00.00 .. 59.99, never rendering as 60.00.                 *)
(***************************************************************************)
DigitValue(c) == CHOOSE d \in 0..9 : Digits[d + 1] = c

\* the hundredths read from the ss.cc field of a line's prefix "[mm:ss.cc]"
SecondsField(line) ==
    1000 * DigitValue(line[5]) + 100 * DigitValue(line[6])
        + 10 * DigitValue(line[8]) + DigitValue(line[9])

\* the number read from the mm field
MinutesField(line) == 10 * DigitValue(line[2]) + DigitValue(line[3])

LrcPrefixValid ==
    (calls = 1 /\ result = LrcPath) =>
        LET lines == LinesOfText(files[LrcPath].text)
        IN  \A k \in 0..(Len(lines) - 1) :
               LET line       == lines[k + 1]
                   start_time == word_timestamps[8 * k + 1].start
               IN  /\ line[1] = "[" /\ line[4] = ":" /\ line[7] = "." /\ line[10] = "]"
                   /\ MinutesField(line) = start_time \div 60000000
                   /\ SecondsField(line) \in 0..5999

(***************************************************************************)
(* The export flow of one session: app.export_mp3 calls                    *)
(* MP3Embedder.embed_sylt_lyrics, then verifies the output file; the       *)
(* entries are then read back with extract_sylt_lyrics.                    *)
(* embed_sylt_lyrics is taken step by step (copy, SYLT data, load, SYLT    *)
(* frame, USLT frame, save) so that file-system effects are separate       *)
(* steps.  mutagen and file-system calls can raise: each such step either  *)
(* succeeds or raises, and the except clause that catches it is followed.  *)
(***************************************************************************)
Sessions == {"s1"}

MaxEmbedUnits == 2

\* TimedWord inputs (start >= 0): a padded word with a sub-millisecond start,
\* a blank word, a second word
EmbedUnits ==
    {[word |-> <<" ", "a">>, start |-> 1000750, end |-> 1500000],
     [word |-> <<" ">>,      start |-> 0,       end |-> 100000],
     [word |-> <<"b">>,      start |-> 500999,  end |-> 900000]}

EmbedTexts == {<<>>, <<"a", " ", "b">>}

IdleCall ==
    [audio_path |-> SongMp3, word_timestamps |-> <<>>, text |-> <<>>,
     output_filename |-> "synced_song.mp3", ffmpeg_available |-> FALSE,
     log_messages |-> <<>>, sylt_data |-> <<>>, audio_file |-> {},
     raised |-> "no call", verification |-> NotVerified, lyrics_data |-> <<>>]

InitEmbed ==
    /\ files \in {[p \in AllPaths |->
                      IF p = SongMp3 THEN song
                      ELSE IF p = TalkWav THEN WavFile ELSE NoFile] :
                  song \in {PlainMp3, TaggedMp3, NoFile}}
    /\ pc = [s \in Sessions |-> "idle"]
    /\ call = [s \in Sessions |-> IdleCall]
    /\ calls = 0
    /\ gemini = NoGemini
    /\ max_words_per_line = DefaultMaxWordsPerLine
    /\ transcription = None
    /\ audio_duration = 0
    /\ word_timestamps = <<>>
    /\ overlap_threshold = DefaultOverlapThreshold
    /\ result = None

\* positions at which a session has no export in progress
AtRest == {"idle", "extracted", "export_failed"}

Logged(c, messages) == [c EXCEPT !.log_messages = @ \o messages]

\* an except clause at line 108 that logs nothing
FailedToEmbedQuiet(c, where) == [c EXCEPT !.raised = where]

\* the except clause at line 108
FailedToEmbed(c, where) ==
    [Logged(c, <<"--- ERROR: Failed to embed SYLT/USLT ---">>)
        EXCEPT !.raised = where]

\* the arguments and locals of embed_sylt_lyrics at line 40
NewCall(audio_path, wts, text, output_filename, ffmpeg_available) ==
    [IdleCall EXCEPT
        !.audio_path = audio_path,
        !.word_timestamps = wts,
        !.text = text,
        !.output_filename = output_filename,
        !.ffmpeg_available = ffmpeg_available,
        !.raised = "none",
        !.log_messages =
            <<"--- MP3Embedder initialized. ---",
              "--- Starting SYLT embedding ---">>]

\* export_mp3 lines 289-299: a new embedder and the call, up to line 40
Start(s) ==
    /\ \A q \in Sessions : pc[q] \in AtRest
    /\ \E audio_path \in SourcePaths,
          wts \in SeqsUpTo(EmbedUnits, MaxEmbedUnits),
          text \in EmbedTexts,
          output_filename \in OutputNames,
          ffmpeg_available \in BOOLEAN :
          call' = [call EXCEPT ![s] =
              NewCall(audio_path, wts, text, output_filename, ffmpeg_available)]
    /\ pc' = [pc EXCEPT ![s] = "step1"]
    /\ UNCHANGED files
    /\ UNCHANGED pureVars

\* shutil.copy2(audio_path, output_path), or the except clause at line 112
\* when it raises
Copy2(s, c) ==
    LET out == output_path(c.output_filename)
    IN  IF exists(files, c.audio_path)
        THEN /\ files' = [files EXCEPT ![out] = files[c.audio_path]]
             /\ call' = [call EXCEPT ![s] = c]
             /\ pc' = [pc EXCEPT ![s] = "step2"]
        ELSE /\ files' = files
             /\ call' = [call EXCEPT ![s] =
                    [Logged(c, <<"--- ERROR: Unexpected error in embed_sylt_lyrics ---">>)
                        EXCEPT !.raised = "step1"]]
             /\ pc' = [pc EXCEPT ![s] = "returned"]

\* Step 1, lines 42-62: ensure the file is in MP3 format
Step1(s) ==
    /\ pc[s] = "step1"
    /\ LET c   == call[s]
           out == output_path(c.output_filename)
       IN  IF ~EndsWithMp3(c.audio_path)
           THEN IF c.ffmpeg_available
                THEN \E converted \in {ok \in BOOLEAN : ok => exists(files, c.audio_path)} :
                        IF converted
                        THEN /\ files' = [files EXCEPT ![out] = Converted(files[c.audio_path])]
                             /\ call' = [call EXCEPT ![s] = Logged(c,
                                    <<"Converting with ffmpeg...",
                                      "--- ffmpeg conversion successful. ---">>)]
                             /\ pc' = [pc EXCEPT ![s] = "step2"]
                        ELSE Copy2(s, Logged(c,
                                    <<"Converting with ffmpeg...",
                                      "--- ERROR: ffmpeg conversion failed. ---",
                                      "--- ffmpeg stderr ---",
                                      "--- Fallback: Copying original file without conversion. ---">>))
                ELSE Copy2(s, Logged(c,
                        <<"--- WARNING: ffmpeg is not available. Cannot convert non-MP3 file. Copying directly. ---">>))
           ELSE Copy2(s, Logged(c,
                    <<"--- Audio is already MP3. Copying to temporary location. ---">>))
    /\ UNCHANGED pureVars

\* Step 2, lines 64-71: create SYLT data
Step2(s) ==
    /\ pc[s] = "step2"
    /\ LET c         == Logged(call[s], <<"--- Creating SYLT data from timestamps... ---">>)
           sylt_data == create_sylt_data(c.word_timestamps)
       IN  IF sylt_data = <<>>
           THEN /\ call' = [call EXCEPT ![s] = Logged(c,
                       <<"--- WARNING: No SYLT data could be created. Skipping embedding. ---">>)]
                /\ pc' = [pc EXCEPT ![s] = "returned"]
           ELSE /\ call' = [call EXCEPT ![s] =
                       [Logged(c, <<"--- Created SYLT entries. ---">>)
                           EXCEPT !.sylt_data = sylt_data]]
                /\ pc' = [pc EXCEPT ![s] = "load"]
    /\ UNCHANGED <<files>>
    /\ UNCHANGED pureVars

\* lines 75-80: MP3(output_path, ID3=ID3), add_tags() when there are none
Load(s) ==
    /\ pc[s] = "load"
    /\ LET c   == Logged(call[s], <<"--- Loading MP3 file with mutagen... ---">>)
           out == output_path(c.output_filename)
       IN  \E loaded \in {ok \in BOOLEAN : ok => Loadable(files, out)} :
              IF loaded
              THEN /\ call' = [call EXCEPT ![s] =
                        IF files[out].tagged
                        THEN [c EXCEPT !.audio_file = files[out].frames]
                        ELSE [Logged(c, <<"--- No ID3 tags found. Creating new ones. ---">>)
                                 EXCEPT !.audio_file = {}]]
                   /\ pc' = [pc EXCEPT ![s] = "sylt"]
              ELSE /\ call' = [call EXCEPT ![s] = FailedToEmbed(c, "load")]
                   /\ pc' = [pc EXCEPT ![s] = "returned"]
    /\ UNCHANGED <<files>>
    /\ UNCHANGED pureVars

\* lines 82-92: create the SYLT frame, delall('SYLT'), add
Sylt(s) ==
    /\ pc[s] = "sylt"
    /\ LET c == Logged(call[s], <<"--- Creating and adding SYLT frame... ---">>)
       IN  \E ok \in BOOLEAN :
              IF ok
              THEN /\ call' = [call EXCEPT ![s] =
                        [c EXCEPT !.audio_file = ReplaceSylt(@, c.sylt_data)]]
                   /\ pc' = [pc EXCEPT ![s] = "uslt"]
              ELSE /\ call' = [call EXCEPT ![s] = FailedToEmbed(c, "sylt")]
                   /\ pc' = [pc EXCEPT ![s] = "returned"]
    /\ UNCHANGED <<files>>
    /\ UNCHANGED pureVars

\* lines 94-103: create the USLT frame, delall('USLT'), add
Uslt(s) ==
    /\ pc[s] = "uslt"
    /\ LET c == Logged(call[s], <<"--- Creating and adding USLT frame... ---">>)
       IN  \E ok \in BOOLEAN :
              IF ok
              THEN /\ call' = [call EXCEPT ![s] =
                        [c EXCEPT !.audio_file = ReplaceUslt(@, c.text)]]
                   /\ pc' = [pc EXCEPT ![s] = "save"]
              ELSE /\ call' = [call EXCEPT ![s] = FailedToEmbed(c, "uslt")]
                   /\ pc' = [pc EXCEPT ![s] = "returned"]
    /\ UNCHANGED <<files>>
    /\ UNCHANGED pureVars

\* a save() that writes the tag container into the file at audio_path
SaveInPlace(s) ==
    /\ pc[s] = "save"
    /\ LET c == call[s]
       IN  \E saved \in {ok \in BOOLEAN : ok => exists(files, c.audio_path)} :
              IF saved
              THEN /\ files' = [files EXCEPT ![c.audio_path] =
                        [@ EXCEPT !.tagged = TRUE, !.frames = c.audio_file]]
                   /\ call' = [call EXCEPT ![s] = Logged(c,
                        <<"--- Successfully embedded SYLT and USLT frames. ---">>)]
              ELSE /\ files' = files
                   /\ call' = [call EXCEPT ![s] = FailedToEmbed(c, "save")]
    /\ pc' = [pc EXCEPT ![s] = "returned"]
    /\ UNCHANGED pureVars

\* lines 105-106: audio_file.save() writes the tag container into the file
Save(s) ==
    /\ pc[s] = "save"
    /\ LET c   == call[s]
           out == output_path(c.output_filename)
       IN  \E saved \in {ok \in BOOLEAN : ok => exists(files, out)} :
              IF saved
              THEN /\ files' = [files EXCEPT ![out] =
                        [@ EXCEPT !.tagged = TRUE, !.frames = c.audio_file]]
                   /\ call' = [call EXCEPT ![s] = Logged(c,
                        <<"--- Successfully embedded SYLT and USLT frames. ---">>)]
              ELSE /\ files' = files
                   /\ call' = [call EXCEPT ![s] = FailedToEmbed(c, "save")]
    /\ pc' = [pc EXCEPT ![s] = "returned"]
    /\ UNCHANGED pureVars

\* export_mp3 lines 311-346: when the output exists, load and verify it
ExportCheck(s) ==
    /\ pc[s] = "returned"
    /\ LET out == output_path(call[s].output_filename)
       IN  IF Loadable(files, out)
           THEN /\ \E v \in verify_sylt_embedding(files, out) :
                      call' = [call EXCEPT ![s].verification = v]
                /\ pc' = [pc EXCEPT ![s] = "verified"]
           ELSE /\ call' = call
                /\ pc' = [pc EXCEPT ![s] = "export_failed"]
    /\ UNCHANGED <<files>>
    /\ UNCHANGED pureVars

\* extract_sylt_lyrics(output_path): read the entries back
Extract(s) ==
    /\ pc[s] = "verified"
    /\ \E l \in extract_sylt_lyrics(files, output_path(call[s].output_filename)) :
          call' = [call EXCEPT ![s].lyrics_data = l]
    /\ pc' = [pc EXCEPT ![s] = "extracted"]
    /\ UNCHANGED <<files>>
    /\ UNCHANGED pureVars

\* MP3Embedder.__del__, lines 316-323: when the embedder of a finished export
\* is collected, shutil.rmtree(self.temp_dir) removes every file under it
\* (errors are swallowed and leave the files)
Del(s) ==
    /\ pc[s] \in {"extracted", "export_failed"}
    /\ \E removed \in BOOLEAN :
          files' = [p \in DOMAIN files |->
                       IF removed /\ p[1] = temp_dir THEN NoFile ELSE files[p]]
    /\ pc' = [pc EXCEPT ![s] = "idle"]
    /\ UNCHANGED call
    /\ UNCHANGED pureVars

NextEmbed ==
    \E s \in Sessions :
        \/ Start(s)
        \/ Del(s)
        \/ Step1(s)
        \/ Step2(s)
        \/ Load(s)
        \/ Sylt(s)
        \/ Uslt(s)
        \/ Save(s)
        \/ ExportCheck(s)
        \/ Extract(s)

SpecEmbed == InitEmbed /\ [][NextEmbed]_vars

\* the statements of embed_sylt_lyrics: a call that has started runs on
EmbedStep ==
    \E s \in Sessions :
        Step1(s) \/ Step2(s) \/ Load(s) \/ Sylt(s) \/ Uslt(s) \/ Save(s)

\* the longest unit list of the calls whose termination is checked
MaxLiveUnits == 1

\* export_mp3 lines 289-299, with a unit list of at most MaxLiveUnits units
StartLive(s) ==
    /\ \A q \in Sessions : pc[q] \in AtRest
    /\ \E audio_path \in SourcePaths,
          wts \in SeqsUpTo(EmbedUnits, MaxLiveUnits),
          text \in EmbedTexts,
          output_filename \in OutputNames,
          ffmpeg_available \in BOOLEAN :
          call' = [call EXCEPT ![s] =
              NewCall(audio_path, wts, text, output_filename, ffmpeg_available)]
    /\ pc' = [pc EXCEPT ![s] = "step1"]
    /\ UNCHANGED files
    /\ UNCHANGED pureVars

NextEmbedLive ==
    \E s \in Sessions :
        \/ StartLive(s)
        \/ Del(s)
        \/ Step1(s)
        \/ Step2(s)
        \/ Load(s)
        \/ Sylt(s)
        \/ Uslt(s)
        \/ Save(s)
        \/ ExportCheck(s)
        \/ Extract(s)

\* embed_sylt_lyrics is sequential code: a call that has started keeps running
SpecEmbedLive == InitEmbed /\ [][NextEmbedLive]_vars /\ WF_vars(EmbedStep)

(***************************************************************************)
(* Exports of several sessions.  Streamlit runs each session's script in   *)
(* its own thread and neither export_mp3 nor MP3Embedder takes a lock, so  *)
(* the steps of two exports interleave freely; every embedder works in the *)
(* same temp_dir.  Session s1 exports an upload named song.mp3; session s2 *)
(* exports a WAV upload named song.wav or talk.wav (converted by ffmpeg),  *)
(* so its output name is that of s1 or another one.                        *)
(***************************************************************************)
SharedSessions == {"s1", "s2"}

SharedOutputNames == {"synced_song.mp3", "synced_talk.mp3"}

SharedPaths == SourcePaths \cup {output_path(n) : n \in SharedOutputNames}

\* what a session exports: audio_path, word_timestamps, edited_text and the
\* output_filename made from the uploaded file's name
SharedInputs(s) ==
    IF s = "s1"
    THEN {[audio_path |-> SongMp3,
           word_timestamps |-> <<[word |-> <<"a">>, start |-> 1000000, end |-> 1500000]>>,
           text |-> <<"a">>,
           output_filename |-> "synced_song.mp3"]}
    ELSE {[audio_path |-> TalkWav,
           word_timestamps |-> <<[word |-> <<"b">>, start |-> 2000000, end |-> 2500000]>>,
           text |-> <<"b">>,
           output_filename |-> n] : n \in SharedOutputNames}

InitShared ==
    /\ files = [p \in SharedPaths |->
                   IF p = SongMp3 THEN TaggedMp3
                   ELSE IF p = TalkWav THEN WavFile ELSE NoFile]
    /\ pc = [s \in SharedSessions |-> "idle"]
    /\ call = [s \in SharedSessions |-> IdleCall]
    /\ calls = 0
    /\ gemini = NoGemini
    /\ max_words_per_line = DefaultMaxWordsPerLine
    /\ transcription = None
    /\ audio_duration = 0
    /\ word_timestamps = <<>>
    /\ overlap_threshold = DefaultOverlapThreshold
    /\ result = None

\* export_mp3 lines 289-299 in session s, whatever the other sessions do
StartShared(s) ==
    /\ pc[s] \in AtRest
    /\ \E in \in SharedInputs(s) :
          call' = [call EXCEPT ![s] =
              NewCall(in.audio_path, in.word_timestamps, in.text,
                      in.output_filename, TRUE)]
    /\ pc' = [pc EXCEPT ![s] = "step1"]
    /\ UNCHANGED files
    /\ UNCHANGED pureVars

NextShared ==
    \E s \in SharedSessions :
        \/ StartShared(s)
        \/ Del(s)
        \/ Step1(s)
        \/ Step2(s)
        \/ Load(s)
        \/ Sylt(s)
        \/ Uslt(s)
        \/ Save(s)
        \/ ExportCheck(s)
        \/ Extract(s)

SpecShared == InitShared /\ [][NextShared]_vars

(***************************************************************************)
(* C11: embed operations on different output files are independent: a step *)
(* of one session's operation, and the construction or destruction of its  *)
(* embedder, changes or removes no output file but its own.                *)
(***************************************************************************)
EmbedsIndependent ==
    [][\A q \in SharedSessions, n \in SharedOutputNames :
          (/\ pc'[q] # pc[q]
           /\ files'[output_path(n)] # files[output_path(n)]) =>
              n = call[q].output_filename]_vars

\* the embed of session s has copied its file and not yet saved or given up
Writing(s) == pc[s] \in {"step2", "load", "sylt", "uslt", "save"}

(***************************************************************************)
(* C12: two embed operations that target the same destination path never   *)
(* interleave: while one is between its copy and its save, the other is    *)
(* not.                                                                    *)
(***************************************************************************)
EmbedsSamePathSerialized ==
    \A q \in SharedSessions, r \in SharedSessions :
        (/\ q # r
         /\ call[q].output_filename = call[r].output_filename
         /\ Writing(q)) => ~Writing(r)

\* the embed call of session s has returned
Returned(s) == pc[s] \in {"returned", "verified", "extracted", "export_failed"}

\* the call logged the success line: both frames were added and save() returned
Succeeded(c) ==
    \E k \in 1..Len(c.log_messages) :
        c.log_messages[k] = "--- Successfully embedded SYLT and USLT frames. ---"

\* the call logged that it began the USLT step
UsltAttempted(c) ==
    \E k \in 1..Len(c.log_messages) :
        c.log_messages[k] = "--- Creating and adding USLT frame... ---"

OutputFile(s) == files[output_path(call[s].output_filename)]

(***************************************************************************)
(* C1: after a successful embed (non-empty SYLT data), whatever the file   *)
(* carried before, the output file's tag container holds exactly one SYLT  *)
(* frame and exactly one USLT frame, and they are the ones this embed      *)
(* wrote.                                                                  *)
(***************************************************************************)
EmbedReplacesFrames ==
    \A s \in Sessions :
        (Returned(s) /\ Succeeded(call[s])) =>
            /\ call[s].sylt_data # <<>>
            /\ getall(OutputFile(s).frames, "SYLT")
                   = {NewSyltFrame(call[s].sylt_data)}
            /\ getall(OutputFile(s).frames, "USLT")
                   = {NewUsltFrame(call[s].text)}

\* a successful embed into a copy of the file that carried two SYLT and two
\* USLT frames; its other frame is still there
EmbedReplacesFramesWitness ==
    \E s \in Sessions :
        /\ Returned(s)
        /\ Succeeded(call[s])
        /\ call[s].audio_path = SongMp3
        /\ files[SongMp3] = TaggedMp3
        /\ Cardinality(getall(files[SongMp3].frames, "SYLT")) = 2
        /\ Cardinality(getall(files[SongMp3].frames, "USLT")) = 2
        /\ TitleFrame \in OutputFile(s).frames

(***************************************************************************)
(* C2: when the word-timestamp list is empty and the full text is not,     *)
(* embed still writes the USLT frame, and verification afterwards reports  *)
(* has_uslt = true and has_sylt = false.                                   *)
(***************************************************************************)
EmbedEmptyTimestampsWritesUslt ==
    \A s \in Sessions :
        (/\ pc[s] = "verified"
         /\ call[s].raised = "none"
         /\ call[s].word_timestamps = <<>>
         /\ call[s].text # <<>>) =>
            /\ NewUsltFrame(call[s].text) \in OutputFile(s).frames
            /\ call[s].verification.has_uslt
            /\ ~call[s].verification.has_sylt

(***************************************************************************)
(* C3: if creating or adding the SYLT frame fails, adding the USLT frame   *)
(* is still attempted.                                                     *)
(***************************************************************************)
EmbedSyltFailureStillTriesUslt ==
    \A s \in Sessions :
        (Returned(s) /\ call[s].raised = "sylt") => UsltAttempted(call[s])

(***************************************************************************)
(* C4: after a successful embed of a unit list, verification reports       *)
(* sylt_entries = the number of units whose trimmed word is non-empty, and *)
(* the entries read back are, in input order, (trimmed word,               *)
(* floor(start * 1000)) for each such unit.                                *)
(***************************************************************************)
NonBlank(word_data) == strip(word_data.word) # <<>>

\* floor(start * 1000) milliseconds, as the seconds value read back
FloorMs(start) == (start \div 1000) * 1000

ExpectedLyrics(wts) ==
    LET kept == SelectSeq(wts, NonBlank)
    IN  [k \in 1..Len(kept) |->
            [text |-> strip(kept[k].word), timestamp |-> FloorMs(kept[k].start)]]

EmbedRoundTrip ==
    \A s \in Sessions :
        (pc[s] = "extracted" /\ Succeeded(call[s])) =>
            /\ call[s].verification.has_sylt
            /\ call[s].verification.sylt_entries =
                   Cardinality({i \in DOMAIN call[s].word_timestamps :
                                    NonBlank(call[s].word_timestamps[i])})
            /\ call[s].lyrics_data = ExpectedLyrics(call[s].word_timestamps)

\* two entries read back from a list with sub-millisecond starts, from a file
\* that carried other SYLT frames before
EmbedRoundTripWitness ==
    \E s \in Sessions :
        /\ pc[s] = "extracted"
        /\ Succeeded(call[s])
        /\ files[SongMp3] = TaggedMp3
        /\ call[s].audio_path = SongMp3
        /\ Len(call[s].word_timestamps) = 2
        /\ Len(call[s].lyrics_data) = 2
        /\ call[s].lyrics_data[1].timestamp = 1000000
        /\ call[s].word_timestamps[1].start = 1000750
        /\ call[s].lyrics_data[2].text = <<"b">>

(***************************************************************************)
(* C20: an embed call whose source audio file is missing logs an error and *)
(* produces no output: when it has returned, the path it returns does not  *)
(* name an existing file, whatever embed calls ran before it.              *)
(***************************************************************************)
EmbedMissingSourceNoOutput ==
    \A s \in Sessions :
        (/\ pc[s] = "returned"
         /\ ~exists(files, call[s].audio_path)) =>
            /\ call[s].raised = "step1"
            /\ ~exists(files, output_path(call[s].output_filename))

\* the lines with which embed_sylt_lyrics reports an error
ErrorLines ==
    {"--- ERROR: ffmpeg conversion failed. ---",
     "--- ERROR: Failed to embed SYLT/USLT ---",
     "--- ERROR: Unexpected error in embed_sylt_lyrics ---"}

ErrorLogged(c) ==
    \E k \in 1..Len(c.log_messages) : c.log_messages[k] \in ErrorLines

\* the embed call of session s is running
Embedding(s) == pc[s] \in {"step1", "step2", "load", "sylt", "uslt", "save"}

LogFaithfulAt(s) ==
    LET c == call[s]
    IN  /\ Embedding(s) => ~Succeeded(c)
        /\ (Returned(s) /\ Succeeded(c)) =>
              /\ c.raised = "none"
              /\ NewSyltFrame(c.sylt_data) \in c.audio_file
              /\ NewUsltFrame(c.text) \in c.audio_file
              /\ pc[s] = "returned" =>
                    (OutputFile(s).tagged /\ OutputFile(s).frames = c.audio_file)
        /\ (Returned(s) /\ c.raised \in {"load", "sylt", "uslt", "save"}) =>
              (ErrorLogged(c) /\ ~Succeeded(c))

(***************************************************************************)
(* C21: the log returned by embed reports the outcome faithfully: it holds  *)
(* the success line only if both frames were added and the save completed; *)
(* whenever tag loading, frame replacement or saving fails it holds an     *)
(* ERROR line and no success line; and every call, whatever fails inside   *)
(* it, returns (the output path and the log) instead of raising.           *)
(***************************************************************************)
EmbedLogFaithful ==
    /\ [](\A s \in Sessions : LogFaithfulAt(s))
    /\ \A s \in Sessions : (pc[s] = "step1") ~> (pc[s] = "returned")

\* a call that added both frames and whose save() raised: it has returned with
\* the error line and without the success line, the copy left untagged
EmbedLogFaithfulWitness ==
    \E s \in Sessions :
        /\ pc[s] = "returned"
        /\ call[s].raised = "save"
        /\ NewSyltFrame(call[s].sylt_data) \in call[s].audio_file
        /\ NewUsltFrame(call[s].text) \in call[s].audio_file
        /\ ErrorLogged(call[s])
        /\ ~Succeeded(call[s])
        /\ exists(files, output_path(call[s].output_filename))
        /\ ~OutputFile(s).tagged

\* the call logged that it copies the source unconverted: the converter
\* failed (lines 53-55) or is not available (line 58)
CopiedUnconverted(c) ==
    \E k \in 1..Len(c.log_messages) :
        c.log_messages[k] \in
            {"--- Fallback: Copying original file without conversion. ---",
             "--- WARNING: ffmpeg is not available. Cannot convert non-MP3 file. Copying directly. ---"}

\* the call logged that it began Step 3
EmbeddingAttempted(c) ==
    \E k \in 1..Len(c.log_messages) :
        c.log_messages[k] = "--- Loading MP3 file with mutagen... ---"

(***************************************************************************)
(* C22: for a non-MP3 source, a converter failure or an unavailable        *)
(* converter does not abort the pipeline: when the call has returned, the  *)
(* output path holds the source's bytes verbatim, a warning or error line  *)
(* is in the log, and the SYLT/USLT embedding step was attempted on that   *)
(* copy.                                                                   *)
(***************************************************************************)
ConverterFailureStillEmbeds ==
    \A s \in Sessions :
        (/\ pc[s] = "returned"
         /\ ~EndsWithMp3(call[s].audio_path)
         /\ exists(files, call[s].audio_path)
         /\ CopiedUnconverted(call[s])) =>
            /\ call[s].raised # "step1"
            /\ OutputFile(s) = files[call[s].audio_path]
            /\ EmbeddingAttempted(call[s])

(***************************************************************************)
(* C23: embed never modifies the source: when the source path differs from *)
(* the output path, no step of the call, succeeding or failing, changes    *)
(* the file at audio_path (its audio and its tag frames); the only file a  *)
(* step changes is the copy at the output path.                            *)
(***************************************************************************)
EmbedLeavesSource ==
    [][\A s \in Sessions :
          (/\ Embedding(s)
           /\ call[s].audio_path # output_path(call[s].output_filename)) =>
              /\ files'[call[s].audio_path] = files[call[s].audio_path]
              /\ \A p \in DOMAIN files :
                    files'[p] # files[p] =>
                        p = output_path(call[s].output_filename)]_vars

\* a successful embed from the tagged upload: the upload still carries its old
\* frames and the copy carries the new ones
EmbedLeavesSourceWitness ==
    \E s \in Sessions :
        /\ pc[s] = "returned"
        /\ Succeeded(call[s])
        /\ call[s].audio_path = SongMp3
        /\ files[SongMp3] = TaggedMp3
        /\ OutputFile(s).audio = files[SongMp3].audio
        /\ OutputFile(s).frames # files[SongMp3].frames
        /\ NewSyltFrame(call[s].sylt_data) \in OutputFile(s).frames
        /\ NewSyltFrame(call[s].sylt_data) \notin files[SongMp3].frames

=============================================================================
